---- MODULE Spec2Model ----
(***************************************************************************)
(* The bulk CSV product-import pipeline of the admin console:              *)
(*   - POST /api/admin/import        (src/app/api/admin/import/route.ts)   *)
(*   - the BullMQ worker             (src/utils/api.ts)                    *)
(*   - GET /api/admin/import/[id]    (src/unnamed/part_000, lines 296-386) *)
(* The catalog (Strapi) and the job store (BullMQ on Redis) are external   *)
(* collaborators; their answers are the nondeterministic inputs.           *)
(***************************************************************************)
EXTENDS Integers, Sequences, FiniteSets, TLC

(***************************************************************************)
(* Program constants.                                                      *)
(***************************************************************************)
LARGE_IMPORT_THRESHOLD == 50

attempts == 3

(***************************************************************************)
(* Bounds of the model.                                                    *)
(***************************************************************************)
MaxSmall == 2

MaxOver == 1

MaxJobs == 1

\* The worker steps that can fall between the two reads of one status poll.
MaxRace == 1

\* The longest filename given to sanitizeFilename, in UTF-16 code units.
MaxNameLen == 3

\* Start requests sent from the import page, and status polls in flight.
MaxStarts == 1

MaxInFlight == 2

(***************************************************************************)
(* Values.                                                                 *)
(***************************************************************************)
\* A CSV cell is a string, modelled as a sequence of characters.
EmptyCell == << >>

BlankCell == << " " >>

ChairCell == << "A" >>

PaddedCell == << " ", "B" >>

\* A row with the Name column, and a row without it.
RowOf(cell) == [Name |-> cell]

NoNameRow == [Other |-> ChairCell]

\* The rows of the "cycle" pattern: valid, empty, blank, absent, padded.
CycleRow(i) ==
    CASE i % 5 = 1 -> RowOf(ChairCell)
      [] i % 5 = 2 -> RowOf(EmptyCell)
      [] i % 5 = 3 -> RowOf(BlankCell)
      [] i % 5 = 4 -> NoNameRow
      [] OTHER     -> RowOf(PaddedCell)

Patterns == {"valid", "cycle"}

MakeBatch(n, pattern) ==
    [i \in 1..n |->
        IF pattern = "valid" THEN RowOf(ChairCell) ELSE CycleRow(i)]

BatchSizes ==
    (1..MaxSmall) \cup (LARGE_IMPORT_THRESHOLD..(LARGE_IMPORT_THRESHOLD + MaxOver))

\* The csvData values a request body can carry (a non-empty array of rows).
Batches == {MakeBatch(n, p) : n \in BatchSizes, p \in Patterns}

\* Field mappings: column -> product field.
NameMapping == [Name |-> "name"]

SkuMapping == [Name |-> "sku"]

Mappings == {NameMapping, SkuMapping}

(***************************************************************************)
(* The catalog's answer to one create call.                                *)
(*   created        2xx, body {data: {id}}                                 *)
(*   malformed      2xx, body without data                                 *)
(*   rejectedMsg    4xx, body {error: {message}}                           *)
(*   rejectedNoMsg  4xx/5xx without a structured message                   *)
(*   transport      no response (network error, timeout)                   *)
(*   thrownEmpty    an error whose message is empty                        *)
(***************************************************************************)
CatalogReplies ==
    {"created", "malformed", "rejectedMsg", "rejectedNoMsg", "transport", "thrownEmpty"}

\* The conditions the catalog is in during an import.
CatalogConditions == {"created", "rejectedNoMsg", "transport"}

\* The catalog validates what it is sent; a record it refuses while it is
\* otherwise accepting is rejected with its own message.
RefusedNames == { << "B" >> }

CatalogReply(condition, productData) ==
    IF condition = "created" /\ productData.name \in RefusedNames
    THEN "rejectedMsg"
    ELSE condition

VARIABLES
    redisUrl,     \* deployment: REDIS_URL as the three modules read it
    importQueue,  \* route.ts module state: TRUE a Queue object, FALSE null
    statusQueue,  \* status route module state: TRUE a Queue object, FALSE null
    importWorker, \* api.ts module state: TRUE a Worker object, FALSE null
    jobs,         \* the job store: job id -> job (ids are 1..Len(jobs))
    worker,       \* the processor invocation the worker is running, if any
    catalog,      \* the condition the catalog is in
    request,      \* the HTTP request being answered, with what the store did to it
    sync,         \* the locals of the synchronous loop of the request being answered
    response,     \* the answer to the request being answered
    page          \* the import page in the browser: component state, timers, requests in flight

vars ==
    << redisUrl, importQueue, statusQueue, importWorker, jobs, worker,
       catalog, request, sync, response, page >>

(***************************************************************************)
(* String helpers (JavaScript String.prototype.trim on character          *)
(* sequences).                                                             *)
(***************************************************************************)
RECURSIVE TrimStart(_)
TrimStart(s) ==
    IF s # << >> /\ Head(s) = " " THEN TrimStart(Tail(s)) ELSE s

RECURSIVE TrimEnd(_)
TrimEnd(s) ==
    IF s # << >> /\ s[Len(s)] = " " THEN TrimEnd(SubSeq(s, 1, Len(s) - 1)) ELSE s

\* Mutant: the cell is taken as it is.
trimNothing(s) == s

trim(s) == TrimEnd(TrimStart(s))

(***************************************************************************)
(* More of JavaScript's String and Number functions, on character          *)
(* sequences.                                                              *)
(***************************************************************************)
UpperCaseLetters ==
    << "A", "B", "C", "D", "E", "F", "G", "H", "I", "J", "K", "L", "M", "N",
       "O", "P", "Q", "R", "S", "T", "U", "V", "W", "X", "Y", "Z", "É" >>

LowerCaseLetters ==
    << "a", "b", "c", "d", "e", "f", "g", "h", "i", "j", "k", "l", "m", "n",
       "o", "p", "q", "r", "s", "t", "u", "v", "w", "x", "y", "z", "é" >>

Digits == << "0", "1", "2", "3", "4", "5", "6", "7", "8", "9" >>

IndexIn(c, table) ==
    IF \E k \in 1..Len(table) : table[k] = c
    THEN CHOOSE k \in 1..Len(table) : table[k] = c
    ELSE 0

LowerChar(c) ==
    IF IndexIn(c, UpperCaseLetters) = 0 THEN c
    ELSE LowerCaseLetters[IndexIn(c, UpperCaseLetters)]

UpperChar(c) ==
    IF IndexIn(c, LowerCaseLetters) = 0 THEN c
    ELSE UpperCaseLetters[IndexIn(c, LowerCaseLetters)]

toLowerCase(s) == [k \in 1..Len(s) |-> LowerChar(s[k])]

toUpperCase(s) == [k \in 1..Len(s) |-> UpperChar(s[k])]

\* The character class [a-z0-9]: the 26 ASCII letters and the digits.
IsSlugChar(c) ==
    \/ IndexIn(c, SubSeq(LowerCaseLetters, 1, 26)) # 0
    \/ IndexIn(c, Digits) # 0

\* .replace(/[^a-z0-9]+/g, '-'): every run of other characters becomes one hyphen.
RECURSIVE ReplaceRuns(_, _)
ReplaceRuns(s, inRun) ==
    IF s = << >> THEN << >>
    ELSE IF IsSlugChar(Head(s)) THEN << Head(s) >> \o ReplaceRuns(Tail(s), FALSE)
    ELSE IF inRun THEN ReplaceRuns(Tail(s), TRUE)
    ELSE << "-" >> \o ReplaceRuns(Tail(s), TRUE)

\* .replace(/^-+|-+$/g, '')
RECURSIVE StripHyphens(_)
StripHyphens(s) ==
    IF s # << >> /\ Head(s) = "-" THEN StripHyphens(Tail(s))
    ELSE IF s # << >> /\ s[Len(s)] = "-" THEN StripHyphens(SubSeq(s, 1, Len(s) - 1))
    ELSE s

\* value.split(separator): the pieces between the separators, empty ones kept.
RECURSIVE split(_, _)
split(s, separator) ==
    IF \E k \in 1..Len(s) : s[k] = separator
    THEN LET k == CHOOSE i \in 1..Len(s) :
                     s[i] = separator /\ \A h \in 1..(i - 1) : s[h] # separator
         IN  << SubSeq(s, 1, k - 1) >> \o split(SubSeq(s, k + 1, Len(s)), separator)
    ELSE << s >>

\* .filter(Boolean) on an array of strings
RECURSIVE FilterNonEmpty(_)
FilterNonEmpty(list) ==
    IF list = << >> THEN << >>
    ELSE IF Head(list) = << >> THEN FilterNonEmpty(Tail(list))
    ELSE << Head(list) >> \o FilterNonEmpty(Tail(list))

RECURSIVE DigitsPrefix(_)
DigitsPrefix(s) ==
    IF s # << >> /\ IndexIn(Head(s), Digits) # 0
    THEN << Head(s) >> \o DigitsPrefix(Tail(s))
    ELSE << >>

RECURSIVE DigitsValue(_)
DigitsValue(s) ==
    IF s = << >> THEN 0
    ELSE 10 * DigitsValue(SubSeq(s, 1, Len(s) - 1)) + (IndexIn(s[Len(s)], Digits) - 1)

RECURSIVE StripZeros(_)
StripZeros(s) ==
    IF s # << >> /\ s[Len(s)] = "0" THEN StripZeros(SubSeq(s, 1, Len(s) - 1)) ELSE s

NaN == [nan |-> TRUE, neg |-> FALSE, units |-> 0, scale |-> 0]

\* parseFloat: the longest decimal prefix (sign, digits, fraction) as the
\* number units / 10^scale, or NaN when there is none.  Exponents and
\* 'Infinity' do not occur in the cells of the model.
parseFloat(s) ==
    LET t == TrimStart(s)
        signed == t # << >> /\ Head(t) \in {"-", "+"}
        u == IF signed THEN Tail(t) ELSE t
        whole == DigitsPrefix(u)
        rest == SubSeq(u, Len(whole) + 1, Len(u))
        fraction == IF rest # << >> /\ Head(rest) = "."
                    THEN DigitsPrefix(Tail(rest))
                    ELSE << >>
    IN  IF whole = << >> /\ fraction = << >>
        THEN NaN
        ELSE [nan |-> FALSE,
              neg |-> signed /\ Head(t) = "-",
              units |-> DigitsValue(whole \o StripZeros(fraction)),
              scale |-> Len(StripZeros(fraction))]

\* parseFloat(value) || null: NaN and zero are falsy.  null is << >>.
NumberOrNull(n) == IF n.nan \/ n.units = 0 THEN << >> ELSE << n >>

(***************************************************************************)
(* Row Mapper: the first half of processProductImport.                     *)
(***************************************************************************)
\* The order in which Object.keys(fieldMappings) visits the columns.
ColumnOrder == << "Name", "Other" >>

DefaultProductData ==
    [name |-> << >>,
     sku |-> << >>,
     slug |-> << >>,
     shortDesc |-> << >>,
     longDesc |-> << >>,
     price |-> << >>,
     currency |-> << "E", "U", "R" >>,
     category |-> << "C", "h", "a", "i", "r" >>,
     tags |-> << >>,
     dimensions |-> [width |-> << >>, depth |-> << >>, height |-> << >>,
                     unit |-> << "c", "m" >>],
     finishes |-> << >>,
     availability |-> << "I", "n", " ", "S", "t", "o", "c", "k" >>,
     hotel_grade |-> FALSE]

\* value.split(',').map((t) => t.trim()).filter(Boolean)
Tags(value) ==
    LET parts == split(value, ",") IN
    FilterNonEmpty([k \in 1..Len(parts) |-> trim(parts[k])])

\* One finish: parts = f.trim().split(':'); name parts[0] || f.trim(),
\* colorHex parts[1] || '#000000'
Finish(f) ==
    LET parts == split(trim(f), ":") IN
    [name |-> IF parts[1] # << >> THEN parts[1] ELSE trim(f),
     colorHex |-> IF Len(parts) >= 2 /\ parts[2] # << >>
                  THEN parts[2]
                  ELSE << "#", "0", "0", "0", "0", "0", "0" >>]

Finishes(value) ==
    LET list == split(value, ",") IN [k \in 1..Len(list) |-> Finish(list[k])]

\* value.toLowerCase() === 'true' || value.toLowerCase() === 'yes'
HotelGrade(value) ==
    toLowerCase(value) \in { << "t", "r", "u", "e" >>, << "y", "e", "s" >> }

\* One forEach callback: the early return, then the switch.
MapColumn(productData, row, fieldMappings, csvColumn) ==
    IF csvColumn \notin DOMAIN fieldMappings
    THEN productData
    ELSE LET productField == fieldMappings[csvColumn] IN
         IF productField = "" \/ csvColumn \notin DOMAIN row \/ row[csvColumn] = << >>
         THEN productData
         ELSE LET value == trim(row[csvColumn]) IN
              CASE productField = "name" -> [productData EXCEPT !.name = value]
                [] productField = "sku" -> [productData EXCEPT !.sku = value]
                [] productField = "slug" -> [productData EXCEPT !.slug = value]
                [] productField = "shortDesc" -> [productData EXCEPT !.shortDesc = value]
                [] productField = "longDesc" -> [productData EXCEPT !.longDesc = value]
                [] productField = "price" ->
                     [productData EXCEPT !.price = NumberOrNull(parseFloat(value))]
                [] productField = "currency" ->
                     [productData EXCEPT !.currency = toUpperCase(value)]
                [] productField = "category" -> [productData EXCEPT !.category = value]
                [] productField = "tags" -> [productData EXCEPT !.tags = Tags(value)]
                [] productField = "width" ->
                     [productData EXCEPT
                        !.dimensions.width = NumberOrNull(parseFloat(value))]
                [] productField = "depth" ->
                     [productData EXCEPT
                        !.dimensions.depth = NumberOrNull(parseFloat(value))]
                [] productField = "height" ->
                     [productData EXCEPT
                        !.dimensions.height = NumberOrNull(parseFloat(value))]
                [] productField = "unit" ->
                     [productData EXCEPT !.dimensions.unit = value]
                [] productField = "finishes" ->
                     [productData EXCEPT !.finishes = Finishes(value)]
                [] productField = "availability" ->
                     [productData EXCEPT !.availability = value]
                [] productField = "hotel_grade" ->
                     [productData EXCEPT !.hotel_grade = HotelGrade(value)]
                [] OTHER -> productData

RECURSIVE MapColumns(_, _, _, _)
MapColumns(productData, row, fieldMappings, k) ==
    IF k > Len(ColumnOrder)
    THEN productData
    ELSE MapColumns(MapColumn(productData, row, fieldMappings, ColumnOrder[k]),
                    row, fieldMappings, k + 1)

\* name.toLowerCase().trim().replace(/[^a-z0-9]+/g, '-').replace(/^-+|-+$/g, '')
Slugify(name) == StripHyphens(ReplaceRuns(trim(toLowerCase(name)), FALSE))

\* if (!productData.slug && productData.name) productData.slug = ...
GenerateSlug(productData) ==
    IF productData.slug = << >> /\ productData.name # << >>
    THEN [productData EXCEPT !.slug = Slugify(productData.name)]
    ELSE productData

\* The record as it stands when the name is validated.
MapRow(row, fieldMappings) ==
    GenerateSlug(MapColumns(DefaultProductData, row, fieldMappings, 1))

\* Mutant: the create call is issued before the name is validated.
PostsUnvalidated(row, fieldMappings) == TRUE

\* Whether processProductImport reaches axios.post for this row.
Posts(row, fieldMappings) == MapRow(row, fieldMappings).name # << >>

(***************************************************************************)
(* Single-Record Importer: what the catch block makes of a failed call.    *)
(***************************************************************************)
\* What is thrown inside the try block for a reply that is not a well-formed
\* success: the AxiosError of a rejection or of a transport failure, or the
\* TypeError of reading response.data.data.id.  responseMessage is
\* error.response?.data?.error?.message, "" when it is undefined.
ThrownError(reply) ==
    CASE reply = "rejectedMsg" ->
           [responseMessage |-> "This attribute must be unique",
            message |-> "Request failed with status code 400"]
      [] reply = "rejectedNoMsg" ->
           [responseMessage |-> "",
            message |-> "Request failed with status code 500"]
      [] reply = "transport" ->
           [responseMessage |-> "", message |-> "Network Error"]
      [] reply = "malformed" ->
           [responseMessage |-> "",
            message |-> "Cannot read properties of undefined (reading 'id')"]
      [] OTHER ->
           [responseMessage |-> "", message |-> ""]

\* Mutant: the catch block reports the catalog's message or nothing.
CaughtMessageResponseOnly(error) ==
    IF error.responseMessage # "" THEN error.responseMessage
    ELSE "Unknown error"

\* error.response?.data?.error?.message || error.message || 'Unknown error'
CaughtMessage(error) ==
    IF error.responseMessage # "" THEN error.responseMessage
    ELSE IF error.message # "" THEN error.message
    ELSE "Unknown error"

\* The try block: it returns a result, or something is thrown in it.
TryBlock(row, fieldMappings, condition) ==
    IF ~Posts(row, fieldMappings)
    THEN [thrown |-> FALSE,
          result |-> [success |-> FALSE, error |-> "Name is required"]]
    ELSE LET reply == CatalogReply(condition, MapRow(row, fieldMappings)) IN
         IF reply = "created"
         THEN [thrown |-> FALSE, result |-> [success |-> TRUE, error |-> ""]]
         ELSE [thrown |-> TRUE, error |-> ThrownError(reply)]

\* try { ... } catch (error) { return { success: false, error: ... } }
processProductImport(row, fieldMappings, condition) ==
    LET attempt == TryBlock(row, fieldMappings, condition) IN
    IF attempt.thrown
    THEN [success |-> FALSE, error |-> CaughtMessage(attempt.error)]
    ELSE attempt.result

\* Mutant: the worker's copy reports the bare error.message.
processProductImport_workerBareMessage(row, fieldMappings, condition) ==
    LET attempt == TryBlock(row, fieldMappings, condition) IN
    IF attempt.thrown
    THEN [success |-> FALSE, error |-> attempt.error.message]
    ELSE attempt.result

\* The same function as src/utils/api.ts defines it for the worker.
processProductImport_worker(row, fieldMappings, condition) ==
    LET attempt == TryBlock(row, fieldMappings, condition) IN
    IF attempt.thrown
    THEN [success |-> FALSE, error |-> CaughtMessage(attempt.error)]
    ELSE attempt.result

\* `Row ${i + 1}: ${result.error || 'Unknown error'}`
RowError(rowNumber, result) ==
    [row |-> rowNumber,
     reason |-> IF result.error = "" THEN "Unknown error" ELSE result.error]

(***************************************************************************)
(* Batch Runner, synchronous: the for loop of POST.  loc holds the locals  *)
(* i, processed, errors, and posts, the rows for which a create call was   *)
(* issued.                                                                 *)
(***************************************************************************)
StartLocals == [i |-> 0, processed |-> 0, errors |-> << >>, posts |-> << >>]

\* Mutant: a new error entry is put at the front of the list.
SyncIterationPrepending(loc, csvData, fieldMappings, condition) ==
    LET row == csvData[loc.i + 1]
        result == processProductImport(row, fieldMappings, condition)
    IN  [i |-> loc.i + 1,
         processed |-> IF result.success THEN loc.processed + 1 ELSE loc.processed,
         errors |-> IF result.success
                    THEN loc.errors
                    ELSE << RowError(loc.i + 1, result) >> \o loc.errors,
         posts |-> IF Posts(row, fieldMappings)
                   THEN Append(loc.posts, loc.i + 1)
                   ELSE loc.posts]

SyncIteration(loc, csvData, fieldMappings, condition) ==
    LET row == csvData[loc.i + 1]
        result == processProductImport(row, fieldMappings, condition)
    IN  [i |-> loc.i + 1,
         processed |-> IF result.success THEN loc.processed + 1 ELSE loc.processed,
         errors |-> IF result.success
                    THEN loc.errors
                    ELSE Append(loc.errors, RowError(loc.i + 1, result)),
         posts |-> IF Posts(row, fieldMappings)
                   THEN Append(loc.posts, loc.i + 1)
                   ELSE loc.posts]

\* Mutant: the loop stops at the first row that fails.
RECURSIVE SyncLoopAbort(_, _, _, _)
SyncLoopAbort(loc, csvData, fieldMappings, condition) ==
    IF loc.i < Len(csvData) /\ loc.errors = << >>
    THEN SyncLoopAbort(SyncIteration(loc, csvData, fieldMappings, condition),
                       csvData, fieldMappings, condition)
    ELSE loc

RECURSIVE SyncLoop(_, _, _, _)
SyncLoop(loc, csvData, fieldMappings, condition) ==
    IF loc.i < Len(csvData)
    THEN SyncLoop(SyncIteration(loc, csvData, fieldMappings, condition),
                  csvData, fieldMappings, condition)
    ELSE loc

(***************************************************************************)
(* Module initialisation (route.ts 11-22, status route 304-314,            *)
(* api.ts 207-261).                                                        *)
(*   default     REDIS_URL unset: redis://localhost:6379                   *)
(*   configured  REDIS_URL names another Redis                             *)
(*   rejected    new Queue(...) throws on the connection options           *)
(***************************************************************************)
RedisUrls == {"default", "configured", "rejected"}

\* try { importQueue = new Queue(...) } catch { warn }
QueueConstructed(url) == url # "rejected"

\* if (REDIS_URL && REDIS_URL !== 'redis://localhost:6379') { try { ... new Worker } }
WorkerConstructed(url) == url # "default" /\ QueueConstructed(url)

IdleWorker == [job |-> 0, pc |-> "idle", loc |-> StartLocals]

NoResponse == [route |-> "none", code |-> 0]

NoRequest == [route |-> "none"]

\* The import page as it is first rendered (import.tsx 64-66).  importJob is
\* << >> for null or << status >> for the job displayed, pollInterval is 0
\* for null or the timer held in the component state; a timer is named
\* after the job it polls.  intervals are the timers of the browser that
\* are running, starting and polls the answers on their way to the page.
\* notified counts the completed/failed alerts raised, started the start
\* requests sent, and cancelled records that Cancel was pressed.
IdlePage ==
    [isImporting |-> FALSE,
     importJob |-> << >>,
     pollInterval |-> 0,
     intervals |-> {},
     starting |-> << >>,
     polls |-> << >>,
     notified |-> 0,
     started |-> 0,
     cancelled |-> FALSE]

Init ==
    /\ redisUrl \in RedisUrls
    /\ importQueue = QueueConstructed(redisUrl)
    /\ statusQueue = QueueConstructed(redisUrl)
    /\ importWorker = WorkerConstructed(redisUrl)
    /\ jobs = << >>
    /\ worker = IdleWorker
    /\ catalog \in CatalogConditions
    /\ request = NoRequest
    /\ sync = StartLocals
    /\ response = NoResponse
    /\ page = IdlePage

(***************************************************************************)
(* POST /api/admin/import.                                                 *)
(***************************************************************************)
Sessions == {"none", "noJwt", "valid"}

\* Request bodies: the well-formed ones, and those the validation rejects.
GoodBodies == [csvData : Batches, fieldMappings : Mappings]

BadBodies ==
    { [fieldMappings |-> NameMapping],
      [csvData |-> << >>, fieldMappings |-> NameMapping],
      [csvData |-> MakeBatch(1, "valid")],
      [csvData |-> MakeBatch(1, "valid"), fieldMappings |-> << >>] }

\* job.add(name, data, {attempts: 3, backoff}) as the store records it.
NewJob(csvData, fieldMappings) ==
    [data |-> [csvData |-> csvData, fieldMappings |-> fieldMappings],
     state |-> "waiting",
     progress |-> 0,
     returnvalue |-> << >>,
     failedReason |-> "",
     attemptsMade |-> 0]

ImportError(code, message) ==
    [route |-> "import", code |-> code, error |-> message]

JobHandle(id, totalProducts) ==
    [route |-> "import", code |-> 200, shape |-> "job",
     id |-> id, status |-> "pending", progress |-> 0,
     total |-> totalProducts, processed |-> 0, errors |-> << >>]

SyncResult(loc, totalProducts) ==
    [route |-> "import", code |-> 200, shape |-> "result",
     success |-> TRUE, processed |-> loc.processed,
     total |-> totalProducts, errors |-> loc.errors]

\* Mutant: the threshold itself already counts as large.
isLargeImportInclusive(totalProducts) == totalProducts >= LARGE_IMPORT_THRESHOLD

isLargeImport(totalProducts) == totalProducts > LARGE_IMPORT_THRESHOLD

\* The request as the handler meets it; add says what importQueue.add did.
ImportRequest(session, body, add) ==
    [route |-> "import", session |-> session, body |-> body, add |-> add]

\* Mutant: the body is read and validated before the credential is looked for.
POST_UnauthorizedBodyFirst(session) ==
    /\ response = NoResponse /\ request = NoRequest
    /\ session # "valid"
    /\ request' = [route |-> "import", session |-> session,
                   body |-> [fieldMappings |-> NameMapping]]
    /\ response' = IF session = "none"
                   THEN [route |-> "import", code |-> 401, error |-> "Unauthorized"]
                   ELSE [route |-> "import", code |-> 400,
                         error |-> "CSV data is required"]
    /\ UNCHANGED << page, redisUrl, importQueue, statusQueue, importWorker, jobs,
                    worker, catalog, sync >>

\* The session checks; the body is not read.
POST_Unauthorized(session) ==
    /\ response = NoResponse /\ request = NoRequest
    /\ session # "valid"
    /\ request' = [route |-> "import", session |-> session]
    /\ response' = ImportError(401, IF session = "none" THEN "Unauthorized"
                                                        ELSE "No JWT token")
    /\ UNCHANGED << page, redisUrl, importQueue, statusQueue, importWorker, jobs,
                    worker, catalog, sync >>

\* !csvData || !Array.isArray(csvData) || csvData.length === 0
NoCsvData(body) ==
    IF "csvData" \in DOMAIN body THEN Len(body.csvData) = 0 ELSE TRUE

\* !fieldMappings || Object.keys(fieldMappings).length === 0
NoFieldMappings(body) ==
    IF "fieldMappings" \in DOMAIN body THEN DOMAIN body.fieldMappings = {} ELSE TRUE

\* Mutant: the mapping is looked at only after the rows have been tried.
POST_BadRequestAfterRows(session, body) ==
    /\ response = NoResponse /\ request = NoRequest
    /\ session = "valid"
    /\ NoCsvData(body) \/ NoFieldMappings(body)
    /\ request' = [route |-> "import", session |-> session, body |-> body,
                   add |-> "notCalled"]
    /\ sync' = IF NoCsvData(body)
               THEN StartLocals
               ELSE SyncLoop(StartLocals, body.csvData, << >>, catalog)
    /\ response' = IF NoCsvData(body)
                   THEN [route |-> "import", code |-> 400,
                         error |-> "CSV data is required"]
                   ELSE [route |-> "import", code |-> 400,
                         error |-> "Field mappings are required"]
    /\ UNCHANGED << page, redisUrl, importQueue, statusQueue, importWorker, jobs,
                    worker, catalog >>

POST_BadRequest(session, body) ==
    /\ response = NoResponse /\ request = NoRequest
    /\ session = "valid"
    /\ NoCsvData(body) \/ NoFieldMappings(body)
    /\ request' = ImportRequest(session, body, "notCalled")
    /\ response' = IF NoCsvData(body)
                   THEN ImportError(400, "CSV data is required")
                   ELSE ImportError(400, "Field mappings are required")
    /\ UNCHANGED << page, redisUrl, importQueue, statusQueue, importWorker, jobs,
                    worker, catalog, sync >>

\* The queue branch: importQueue.add resolves.
POST_Enqueue(session, body) ==
    /\ response = NoResponse /\ request = NoRequest
    /\ session = "valid"
    /\ isLargeImport(Len(body.csvData)) /\ importQueue
    /\ Len(jobs) < MaxJobs
    /\ request' = ImportRequest(session, body, "resolves")
    /\ jobs' = Append(jobs, NewJob(body.csvData, body.fieldMappings))
    /\ response' = JobHandle(Len(jobs) + 1, Len(body.csvData))
    /\ UNCHANGED << page, redisUrl, importQueue, statusQueue, importWorker,
                    worker, catalog, sync >>

\* The queue branch: importQueue.add rejects; the outer catch answers.
POST_EnqueueFails(session, body) ==
    /\ response = NoResponse /\ request = NoRequest
    /\ session = "valid"
    /\ isLargeImport(Len(body.csvData)) /\ importQueue
    /\ request' = ImportRequest(session, body, "rejects")
    /\ response' = ImportError(500, "Connection is closed.")
    /\ UNCHANGED << page, redisUrl, importQueue, statusQueue, importWorker, jobs,
                    worker, catalog, sync >>

\* The synchronous branch.
POST_Synchronous(session, body) ==
    /\ response = NoResponse /\ request = NoRequest
    /\ session = "valid"
    /\ ~(isLargeImport(Len(body.csvData)) /\ importQueue)
    /\ request' = ImportRequest(session, body, "notCalled")
    /\ sync' = SyncLoop(StartLocals, body.csvData, body.fieldMappings, catalog)
    /\ response' = SyncResult(sync', Len(body.csvData))
    /\ UNCHANGED << page, redisUrl, importQueue, statusQueue, importWorker, jobs,
                    worker, catalog >>

POST ==
    \E session \in Sessions :
        \/ POST_Unauthorized(session)
        \/ \E body \in BadBodies : POST_BadRequest(session, body)
        \/ \E body \in GoodBodies :
              \/ POST_Enqueue(session, body)
              \/ POST_EnqueueFails(session, body)
              \/ POST_Synchronous(session, body)

(***************************************************************************)
(* Batch Runner, background: the processor the Worker runs for a job       *)
(* (api.ts 218-242), one step per await.  The store's part (picking a      *)
(* waiting job, recording the outcome of an attempt, the backoff) is       *)
(* BullMQ's.                                                               *)
(***************************************************************************)
\* Math.round(((i + 1) / csvData.length) * 100), with done = i + 1
ProgressOf(done, length) == (200 * done + length) \div (2 * length)

\* Mutant: a row whose create call failed is tried a second time.
WorkerIterationRetrying(loc, csvData, fieldMappings, condition) ==
    LET row == csvData[loc.i + 1]
        result == processProductImport_worker(row, fieldMappings, condition)
    IN  [i |-> loc.i,
         processed |-> IF result.success THEN loc.processed + 1 ELSE loc.processed,
         errors |-> IF result.success
                    THEN loc.errors
                    ELSE Append(loc.errors, RowError(loc.i + 1, result)),
         posts |-> IF ~Posts(row, fieldMappings) THEN loc.posts
                   ELSE IF result.success THEN Append(loc.posts, loc.i + 1)
                   ELSE loc.posts \o << loc.i + 1, loc.i + 1 >>]

\* The body of the for loop up to the progress update.
WorkerIteration(loc, csvData, fieldMappings, condition) ==
    LET row == csvData[loc.i + 1]
        result == processProductImport_worker(row, fieldMappings, condition)
    IN  [i |-> loc.i,
         processed |-> IF result.success THEN loc.processed + 1 ELSE loc.processed,
         errors |-> IF result.success
                    THEN loc.errors
                    ELSE Append(loc.errors, RowError(loc.i + 1, result)),
         posts |-> IF Posts(row, fieldMappings)
                   THEN Append(loc.posts, loc.i + 1)
                   ELSE loc.posts]

\* return { processed, total: csvData.length, errors }
ReturnValue(loc, csvData) ==
    [processed |-> loc.processed, total |-> Len(csvData), errors |-> loc.errors]

\* The messages of the errors that can end a processor run.
CrashReasons == {"Connection is closed.", ""}

\* The progress updates at which the store connection may be lost: the one
\* after the first row, after the middle row and after the last row.
CrashRows(length) == {1, (length + 1) \div 2, length}

\* The store's record of a failed attempt: retry after backoff while attempts
\* remain, else failed.
AttemptFailed(job, reason) ==
    [job EXCEPT !.attemptsMade = job.attemptsMade + 1,
                !.failedReason = reason,
                !.state = IF job.attemptsMade + 1 < attempts THEN "delayed"
                                                              ELSE "failed"]

\* The worker and the store go on while a status poll waits between its two
\* reads, and stand still while an answer is on its way out.
MayRun ==
    /\ response = NoResponse
    /\ IF request = NoRequest THEN TRUE ELSE request.raced < MaxRace

\* The poll that waits, if there is one, has been overtaken by one more step.
Raced(poll) ==
    IF poll = NoRequest THEN poll ELSE [poll EXCEPT !.raced = @ + 1]

\* Mutant: the worker takes a waiting job while a processor run is going on.
WorkerTakeConcurrent(j) ==
    /\ MayRun
    /\ importWorker
    /\ j \in 1..Len(jobs) /\ jobs[j].state = "waiting"
    /\ jobs' = [jobs EXCEPT ![j].state = "active"]
    /\ worker' = [job |-> j, pc |-> "loop", loc |-> StartLocals]
    /\ UNCHANGED << page, redisUrl, importQueue, statusQueue, importWorker,
                    catalog, sync, response >>
    /\ request' = Raced(request)

\* The worker (concurrency 1) takes a waiting job and starts the processor.
WorkerTake(j) ==
    /\ MayRun
    /\ importWorker
    /\ worker.pc = "idle"
    /\ j \in 1..Len(jobs) /\ jobs[j].state = "waiting"
    /\ jobs' = [jobs EXCEPT ![j].state = "active"]
    /\ worker' = [job |-> j, pc |-> "loop", loc |-> StartLocals]
    /\ UNCHANGED << page, redisUrl, importQueue, statusQueue, importWorker,
                    catalog, sync, response >>
    /\ request' = Raced(request)

\* Mutant: a failed row is not caught and ends the processor run.
WorkerProcessRowThrowing ==
    /\ MayRun
    /\ worker.pc = "loop"
    /\ worker.loc.i < Len(jobs[worker.job].data.csvData)
    /\ LET next == WorkerIteration(worker.loc,
                                   jobs[worker.job].data.csvData,
                                   jobs[worker.job].data.fieldMappings,
                                   catalog)
       IN  IF next.errors = worker.loc.errors
           THEN /\ worker' = [worker EXCEPT !.loc = next, !.pc = "progress"]
                /\ jobs' = jobs
           ELSE /\ worker' = IdleWorker
                /\ jobs' = [jobs EXCEPT
                              ![worker.job] = AttemptFailed(@, "Name is required")]
    /\ UNCHANGED << page, redisUrl, importQueue, statusQueue, importWorker,
                    catalog, sync, response >>
    /\ request' = Raced(request)

\* One row: await processProductImport(row, fieldMappings, jwt), then count.
WorkerProcessRow ==
    /\ MayRun
    /\ worker.pc = "loop"
    /\ worker.loc.i < Len(jobs[worker.job].data.csvData)
    /\ worker' = [worker EXCEPT
                    !.loc = WorkerIteration(worker.loc,
                                            jobs[worker.job].data.csvData,
                                            jobs[worker.job].data.fieldMappings,
                                            catalog),
                    !.pc = "progress"]
    /\ UNCHANGED << page, redisUrl, importQueue, statusQueue, importWorker, jobs,
                    catalog, sync, response >>
    /\ request' = Raced(request)

\* await job.updateProgress(...) resolves; i++.
WorkerUpdateProgress ==
    /\ MayRun
    /\ worker.pc = "progress"
    /\ jobs' = [jobs EXCEPT ![worker.job].progress =
                    ProgressOf(worker.loc.i + 1, Len(jobs[worker.job].data.csvData))]
    /\ worker' = [worker EXCEPT !.loc.i = worker.loc.i + 1, !.pc = "loop"]
    /\ UNCHANGED << page, redisUrl, importQueue, statusQueue, importWorker,
                    catalog, sync, response >>
    /\ request' = Raced(request)

\* await job.updateProgress(...) rejects: the processor throws outside the
\* per-row try scope.
WorkerCrash ==
    /\ MayRun
    /\ worker.pc = "progress"
    /\ worker.loc.i + 1 \in CrashRows(Len(jobs[worker.job].data.csvData))
    /\ \E reason \in CrashReasons :
          jobs' = [jobs EXCEPT ![worker.job] = AttemptFailed(jobs[worker.job], reason)]
    /\ worker' = IdleWorker
    /\ UNCHANGED << page, redisUrl, importQueue, statusQueue, importWorker,
                    catalog, sync, response >>
    /\ request' = Raced(request)

\* The loop is over: the processor returns and the job is completed.
WorkerReturn ==
    /\ MayRun
    /\ worker.pc = "loop"
    /\ worker.loc.i = Len(jobs[worker.job].data.csvData)
    /\ jobs' = [jobs EXCEPT
                  ![worker.job].state = "completed",
                  ![worker.job].returnvalue =
                      << ReturnValue(worker.loc, jobs[worker.job].data.csvData) >>]
    /\ worker' = IdleWorker
    /\ UNCHANGED << page, redisUrl, importQueue, statusQueue, importWorker,
                    catalog, sync, response >>
    /\ request' = Raced(request)

\* The backoff delay of a retried job is over.
BackoffOver(j) ==
    /\ MayRun
    /\ j \in 1..Len(jobs) /\ jobs[j].state = "delayed"
    /\ jobs' = [jobs EXCEPT ![j].state = "waiting"]
    /\ UNCHANGED << page, redisUrl, importQueue, statusQueue, importWorker, worker,
                    catalog, sync, response >>
    /\ request' = Raced(request)

(***************************************************************************)
(* GET /api/admin/import/[id].                                             *)
(***************************************************************************)
StatusError(code, message) ==
    [route |-> "status", code |-> code, error |-> message]

\* Mutant: a job waiting in backoff counts as running.
StatusOfDelayedRunning(state) ==
    IF state = "completed" THEN "completed"
    ELSE IF state = "failed" THEN "failed"
    ELSE IF state = "active" \/ state = "delayed" THEN "processing"
    ELSE "pending"

\* The if-chain that turns the native state into the status.
StatusOf(state) ==
    IF state = "completed" THEN "completed"
    ELSE IF state = "failed" THEN "failed"
    ELSE IF state = "active" THEN "processing"
    ELSE "pending"

\* Mutant: the error is attached whenever the job records a failure reason.
WithErrorIfReason(answer, job) ==
    IF job.failedReason # ""
    THEN answer @@ [error |-> job.failedReason]
    ELSE answer

\* response.error, set only under if (state === 'failed')
WithError(answer, job) ==
    IF job.state = "failed"
    THEN answer @@ [error |-> IF job.failedReason = "" THEN "Job failed"
                                                       ELSE job.failedReason]
    ELSE answer

StatusAnswer(id, job) ==
    WithError(
        [route |-> "status", code |-> 200,
         id |-> id,
         status |-> StatusOf(job.state),
         progress |-> job.progress,
         total |-> Len(job.data.csvData),
         processed |-> IF job.returnvalue = << >> THEN 0
                       ELSE job.returnvalue[1].processed,
         errors |-> IF job.returnvalue = << >> THEN << >>
                    ELSE job.returnvalue[1].errors],
        job)

\* What the store does to the two lookups of one poll.
Lookups == {"ok", "getJobFails", "getStateFails"}

\* The poll as the handler meets it.  job is what importQueue.getJob(id)
\* resolved to, << >> when the handler did not get that far or got null.
StatusRequest(session, id, lookup, job) ==
    [route |-> "status", session |-> session, id |-> id, lookup |-> lookup,
     job |-> job, raced |-> 0]

\* The poll gets as far as await job.getState() and waits there.
Found(session, id, lookup) ==
    session # "none" /\ statusQueue /\ lookup = "ok" /\ id \in 1..Len(jobs)

\* The handler up to the second read: the session check, the queue check,
\* getJob, and the answers that are given without the state of the job.
GET(session, id, lookup) ==
    /\ response = NoResponse /\ request = NoRequest
    /\ request' = StatusRequest(session, id, lookup,
                                IF Found(session, id, lookup)
                                THEN << jobs[id] >>
                                ELSE << >>)
    /\ response' =
         IF session = "none" THEN StatusError(401, "Unauthorized")
         ELSE IF ~statusQueue THEN StatusError(503, "Job queue not available")
         ELSE IF lookup = "getJobFails" THEN StatusError(500, "Connection is closed.")
         ELSE IF id \notin 1..Len(jobs) THEN StatusError(404, "Job not found")
         ELSE IF lookup = "getStateFails" THEN StatusError(500, "Connection is closed.")
         ELSE NoResponse
    /\ UNCHANGED << page, redisUrl, importQueue, statusQueue, importWorker, jobs,
                    worker, catalog, sync >>

\* Mutant: the handler writes the progress it reports back to the job.
GET_getStateStoring ==
    /\ response = NoResponse
    /\ request # NoRequest
    /\ response' = StatusAnswer(request.id,
                                [request.job[1] EXCEPT
                                   !.state = jobs[request.id].state])
    /\ jobs' = [jobs EXCEPT ![request.id].progress =
                   IF jobs[request.id].state = "completed" THEN 100 ELSE 0]
    /\ UNCHANGED << page, redisUrl, importQueue, statusQueue, importWorker,
                    worker, catalog, request, sync >>

\* job.getState() resolves: the state is the one the job has now, everything
\* else in the answer is read from the job object getJob returned.
GET_getState ==
    /\ response = NoResponse
    /\ request # NoRequest
    /\ response' = StatusAnswer(request.id,
                                [request.job[1] EXCEPT
                                   !.state = jobs[request.id].state])
    /\ UNCHANGED << page, redisUrl, importQueue, statusQueue, importWorker, jobs,
                    worker, catalog, request, sync >>

\* The answer has left the server: the request and its locals are gone.
Respond ==
    /\ response # NoResponse
    /\ response' = NoResponse
    /\ request' = NoRequest
    /\ sync' = StartLocals
    /\ UNCHANGED << page, redisUrl, importQueue, statusQueue, importWorker, jobs,
                    worker, catalog >>

\* A session or none: the status route does not look for the JWT.
StatusSessions == {"none", "valid"}

JobIds == 1..(MaxJobs + 1)

Poll ==
    \E session \in StatusSessions, id \in JobIds, lookup \in Lookups :
        GET(session, id, lookup)

Next ==
    \/ POST
    \/ Poll
    \/ GET_getState
    \/ Respond
    \/ \E j \in 1..MaxJobs : WorkerTake(j)
    \/ WorkerProcessRow
    \/ WorkerUpdateProgress
    \/ WorkerCrash
    \/ WorkerReturn
    \/ \E j \in 1..MaxJobs : BackoffOver(j)

Spec == Init /\ [][Next]_vars

(***************************************************************************)
(* Scheduling.  The worker is a process of its own: it keeps taking and    *)
(* running jobs whatever the HTTP handlers do, the backoff timer fires,    *)
(* and every answer leaves the server.                                     *)
(***************************************************************************)
WorkerStep ==
    \/ \E j \in 1..MaxJobs : WorkerTake(j)
    \/ WorkerProcessRow
    \/ WorkerUpdateProgress
    \/ WorkerCrash
    \/ WorkerReturn

FairSpec ==
    /\ Spec
    /\ SF_vars(WorkerStep)
    /\ SF_vars(\E j \in 1..MaxJobs : BackoffOver(j))
    /\ WF_vars(GET_getState)
    /\ WF_vars(Respond)

(***************************************************************************)
(* The single-record importer on its own: processProductImport called on   *)
(* one row, with every field it can map and every reply of the catalog.    *)
(***************************************************************************)
ProductFields ==
    {"name", "sku", "slug", "shortDesc", "longDesc", "price", "currency",
     "category", "tags", "width", "depth", "height", "unit", "finishes",
     "availability", "hotel_grade"}

\* What a mapping entry can name: a product field, nothing, or a field the
\* switch does not know.
MappingTargets == ProductFields \cup {"", "colour"}

PunctuationCell == << "!", "?" >>

AccentCell == << "É" >>

PhraseCell == << "M", "y", " ", "C", "h", "a", "i", "r", "!" >>

NameCells ==
    {EmptyCell, BlankCell, ChairCell, PaddedCell, PunctuationCell, AccentCell,
     PhraseCell}

OtherCells ==
    {EmptyCell, BlankCell,
     << "1", "2", ".", "5", "0" >>,
     << "1", "2", "a" >>,
     << "a", "b", "c" >>,
     << "0" >>,
     << "T", "R", "U", "E" >>,
     << "Y", "e", "s" >>,
     << "n", "o" >>,
     << "u", "s", "d" >>,
     << "a", ",", " ", "b", ",", "," >>,
     << "O", "a", "k", ":", "#", "f", "f", ",", " ", "P" >>,
     << " ", "x", " " >>}

ImporterRows ==
    {[Name |-> n, Other |-> o] : n \in NameCells, o \in OtherCells}
        \cup {[Name |-> n] : n \in NameCells}
        \cup {[Other |-> o] : o \in OtherCells}

ImporterMappings ==
    {[Name |-> "name", Other |-> f] : f \in MappingTargets}
        \cup {[Other |-> f] : f \in MappingTargets}
        \cup {NameMapping}

\* One call processProductImport(row, fieldMappings, jwt) and its return.
\* posted holds the body of the create call, if one was issued.
ImportRow(row, fieldMappings, condition) ==
    /\ response = NoResponse
    /\ request' = [route |-> "importer", row |-> row,
                   fieldMappings |-> fieldMappings, condition |-> condition]
    /\ response' = [route |-> "importer",
                    result |-> processProductImport(row, fieldMappings, condition),
                    worker |-> processProductImport_worker(row, fieldMappings,
                                                           condition),
                    posted |-> IF Posts(row, fieldMappings)
                               THEN << MapRow(row, fieldMappings) >>
                               ELSE << >>]
    /\ UNCHANGED << page, redisUrl, importQueue, statusQueue, importWorker, jobs,
                    worker, catalog, sync >>

ImporterInit == Init /\ redisUrl = "default" /\ catalog = "created"

ImporterNext ==
    \/ \E row \in ImporterRows, fieldMappings \in ImporterMappings,
          condition \in CatalogReplies :
          ImportRow(row, fieldMappings, condition)
    \/ Respond

ImporterSpec == ImporterInit /\ [][ImporterNext]_vars

(***************************************************************************)
(* POST /api/admin/presign (src/app/api/admin/presign/route.ts).  The file *)
(* holds two versions of the handler: "first" (lines 8-65) and "second"    *)
(* (lines 84-205).                                                         *)
(***************************************************************************)
PresignVersions == {"first", "second"}

\* AWS_CLOUDFRONT_URL set, else AWS_BUCKET set, else neither.
PresignEnvs == {"cloudfront", "bucket", "neither"}

\* The JSON bodies: each of filename, contentType and method missing, empty
\* or given ("" stands for a missing property or an empty string, both falsy).
PresignBodies ==
    [filename : {"", "chair.glb"},
     contentType : {"", "model/gltf-binary"},
     method : {"", "POST", "PUT"}]

\* A body request.json() cannot parse.
UnparsableBody == [filename |-> "{", contentType |-> "{", method |-> "{"]

\* What the CMS presign endpoint does with a call.  A reply with data is a
\* 2xx; status 0 with axios TRUE is a transport error; axios FALSE is an
\* error that is not an AxiosError.
NoData ==
    [url |-> "", fields |-> "", uploadUrl |-> "", fileKey |-> "", publicUrl |-> "",
     method |-> ""]

PresignReplies ==
    { [ok |-> TRUE, data |-> [NoData EXCEPT !.url = "https://s3/form", !.fields = "key1"]],
      [ok |-> TRUE, data |-> [NoData EXCEPT !.uploadUrl = "https://s3/put",
                                            !.fileKey = "key2", !.method = "PUT"]],
      [ok |-> TRUE, data |-> [NoData EXCEPT !.publicUrl = "https://cdn/key3"]],
      [ok |-> FALSE, axios |-> TRUE, status |-> 403, errorMessage |-> "Forbidden",
       dataMessage |-> "", message |-> "Request failed with status code 403"],
      [ok |-> FALSE, axios |-> TRUE, status |-> 502, errorMessage |-> "",
       dataMessage |-> "Bad gateway", message |-> "Request failed with status code 502"],
      [ok |-> FALSE, axios |-> TRUE, status |-> 0, errorMessage |-> "",
       dataMessage |-> "", message |-> "Network Error"],
      [ok |-> FALSE, axios |-> FALSE, status |-> 0, errorMessage |-> "",
       dataMessage |-> "", message |-> ""] }

PresignError(code, message) ==
    [route |-> "presign", code |-> code, error |-> message]

\* const { filename, contentType, method = 'POST' } = body ('PUT' in the first version)
MethodOf(version, body) ==
    IF body.method # "" THEN body.method
    ELSE IF version = "first" THEN "PUT" ELSE "POST"

\* The public URL for a file key: CloudFront, else the bucket, else the host
\* of the upload URL.
PublicUrl(env, uploadUrl, fileKey) ==
    IF fileKey = "" THEN << "upload", uploadUrl >>
    ELSE IF env = "cloudfront" THEN << "cloudfront", fileKey >>
    ELSE IF env = "bucket" THEN << "bucket", fileKey >>
    ELSE << "host", fileKey >>

\* The standardized answer of the second version.
Standardized(env, method, data) ==
    LET form == method = "POST" /\ data.url # "" /\ data.fields # ""
        put == method = "PUT" /\ data.uploadUrl # ""
        uploadUrl == IF form THEN data.url
                     ELSE IF put THEN data.uploadUrl
                     ELSE IF data.url # "" THEN data.url ELSE data.uploadUrl
        fields == IF form \/ ~put THEN data.fields ELSE ""
    IN  [route |-> "presign", code |-> 200,
         uploadUrl |-> uploadUrl,
         fields |-> fields,
         publicUrl |-> IF form
                       THEN PublicUrl(env, uploadUrl, data.fields)
                       ELSE IF put
                       THEN PublicUrl(env, uploadUrl, data.fileKey)
                       ELSE IF data.publicUrl # ""
                       THEN << "cms", data.publicUrl >>
                       ELSE << "upload", uploadUrl >>,
         method |-> IF data.method # "" THEN data.method ELSE method,
         fileKey |-> IF data.fileKey # "" THEN data.fileKey ELSE fields]

\* The answer to an error of the call, by the catch blocks of each version.
PresignFailure(version, reply) ==
    IF reply.axios
    THEN PresignError(
             IF reply.status # 0 THEN reply.status ELSE 500,
             IF reply.errorMessage # "" THEN reply.errorMessage
             ELSE IF version = "second" /\ reply.dataMessage # "" THEN reply.dataMessage
             ELSE IF reply.message # "" THEN reply.message
             ELSE IF version = "first" THEN "Failed to generate presigned URL"
             ELSE "Failed to generate presigned URL from Strapi")
    ELSE PresignError(
             500,
             IF version = "second" /\ reply.message # "" THEN reply.message
             ELSE "Failed to generate presigned URL")

\* Mutant: the handler looks at the body before it looks for the JWT.
Presign_POSTBodyFirst(version, env, session, body, reply) ==
    /\ response = NoResponse /\ request = NoRequest
    /\ request' = [route |-> "presign", version |-> version, env |-> env,
                   session |-> session, body |-> body, reply |-> reply,
                   calls |-> << >>]
    /\ response' =
         IF session = "none"
         THEN PresignError(401, "Unauthorized")
         ELSE IF body.filename = "" \/ body.contentType = ""
         THEN PresignError(400, "filename and contentType are required")
         ELSE PresignError(401, "No JWT token")
    /\ UNCHANGED << page, redisUrl, importQueue, statusQueue, importWorker, jobs,
                    worker, catalog, sync >>

\* The handler.  calls holds the calls made to the CMS presign endpoint.
Presign_POST(version, env, session, body, reply) ==
    /\ response = NoResponse /\ request = NoRequest
    /\ LET forwarded == /\ session = "valid"
                        /\ body # UnparsableBody
                        /\ body.filename # "" /\ body.contentType # ""
       IN
       /\ request' = [route |-> "presign", version |-> version, env |-> env,
                      session |-> session, body |-> body, reply |-> reply,
                      calls |-> IF forwarded
                                THEN << [filename |-> body.filename,
                                         contentType |-> body.contentType,
                                         method |-> MethodOf(version, body)] >>
                                ELSE << >>]
       /\ response' =
            IF session = "none"
            THEN PresignError(401, IF version = "first"
                                   THEN "Unauthorized"
                                   ELSE "Unauthorized: No valid session")
            ELSE IF session = "noJwt"
            THEN PresignError(401, IF version = "first"
                                   THEN "No JWT token"
                                   ELSE "Unauthorized: No Strapi JWT token")
            ELSE IF body = UnparsableBody
            THEN PresignError(500, IF version = "first"
                                   THEN "Failed to generate presigned URL"
                                   ELSE "Unexpected token")
            ELSE IF body.filename = "" \/ body.contentType = ""
            THEN PresignError(400, "filename and contentType are required")
            ELSE IF ~reply.ok
            THEN PresignFailure(version, reply)
            ELSE IF version = "first"
            THEN [route |-> "presign", code |-> 200, data |-> reply.data]
            ELSE Standardized(env, MethodOf(version, body), reply.data)
    /\ UNCHANGED << page, redisUrl, importQueue, statusQueue, importWorker, jobs,
                    worker, catalog, sync >>

PresignInit == Init /\ redisUrl = "default" /\ catalog = "created"

PresignNext ==
    \/ \E version \in PresignVersions, env \in PresignEnvs, session \in Sessions,
          body \in PresignBodies \cup {UnparsableBody}, reply \in PresignReplies :
          Presign_POST(version, env, session, body, reply)
    \/ Respond

PresignSpec == PresignInit /\ [][PresignNext]_vars

(***************************************************************************)
(* sanitizeFilename (src/utils/upload.ts).  A filename is a JavaScript     *)
(* string: a sequence of UTF-16 code units, which is what a regular        *)
(* expression without the u flag works on.  "hi" and "lo" are the two      *)
(* surrogates of a character outside the basic plane.                      *)
(***************************************************************************)
FilenameUnits == {"a", "Z", "7", ".", "_", "-", " ", "@", "é", "hi", "lo"}

Filenames == UNION {[1..n -> FilenameUnits] : n \in 0..MaxNameLen}

\* The character class [a-zA-Z0-9._-].
IsFilenameChar(c) ==
    \/ IndexIn(c, SubSeq(LowerCaseLetters, 1, 26)) # 0
    \/ IndexIn(c, SubSeq(UpperCaseLetters, 1, 26)) # 0
    \/ IndexIn(c, Digits) # 0
    \/ c \in {".", "_", "-"}

\* Mutant: a run of other characters becomes one underscore.
RECURSIVE sanitizeFilenameRuns(_)
sanitizeFilenameRuns(filename) ==
    IF filename = << >> THEN << >>
    ELSE IF IsFilenameChar(Head(filename))
    THEN << Head(filename) >> \o sanitizeFilenameRuns(Tail(filename))
    ELSE IF Len(filename) > 1 /\ ~IsFilenameChar(filename[2])
    THEN sanitizeFilenameRuns(Tail(filename))
    ELSE << "_" >> \o sanitizeFilenameRuns(Tail(filename))

\* filename.replace(/[^a-zA-Z0-9._-]/g, '_')
sanitizeFilename(filename) ==
    [k \in 1..Len(filename) |->
        IF IsFilenameChar(filename[k]) THEN filename[k] ELSE "_"]

\* One call, and a second call on its result.
Sanitize(filename) ==
    /\ response = NoResponse /\ request = NoRequest
    /\ request' = [route |-> "sanitize", filename |-> filename]
    /\ response' = [route |-> "sanitize",
                    once |-> sanitizeFilename(filename),
                    twice |-> sanitizeFilename(sanitizeFilename(filename))]
    /\ UNCHANGED << page, redisUrl, importQueue, statusQueue, importWorker, jobs,
                    worker, catalog, sync >>

UploadInit == Init /\ redisUrl = "default" /\ catalog = "created"

UploadNext ==
    \/ \E filename \in Filenames : Sanitize(filename)
    \/ Respond

UploadSpec == UploadInit /\ [][UploadNext]_vars

(***************************************************************************)
(* The worker with a backlog: two background imports have been accepted    *)
(* (route.ts 227-241, once per request) before the worker takes the first. *)
(***************************************************************************)
BacklogBatches == {csvData \in Batches : isLargeImport(Len(csvData))}

DrainInit ==
    /\ redisUrl = "configured"
    /\ importQueue = QueueConstructed(redisUrl)
    /\ statusQueue = QueueConstructed(redisUrl)
    /\ importWorker = WorkerConstructed(redisUrl)
    /\ \E first, second \in BacklogBatches :
          jobs = << NewJob(first, NameMapping), NewJob(second, NameMapping) >>
    /\ worker = IdleWorker
    /\ catalog \in CatalogConditions
    /\ request = NoRequest
    /\ sync = StartLocals
    /\ response = NoResponse
    /\ page = IdlePage

DrainNext ==
    \/ \E j \in 1..Len(jobs) : WorkerTake(j)
    \/ WorkerProcessRow
    \/ WorkerUpdateProgress
    \/ WorkerCrash
    \/ WorkerReturn
    \/ \E j \in 1..Len(jobs) : BackoffOver(j)

DrainSpec == DrainInit /\ [][DrainNext]_vars

(***************************************************************************)
(* The import page (src/app/admin/products/import.tsx) and the server as   *)
(* the page meets it.  A request is handled by the server when it is sent  *)
(* and its answer reaches the page in a later step, in any order.          *)
(***************************************************************************)
\* What POST /api/admin/import answers: a job handle, the result of a
\* synchronous import, or an error.
StartAnswers == {"job", "result", "error"}

\* What GET /api/admin/import/[id] does with a poll: it answers the job, or
\* an error status.
PollOutcomes == {"ok", "error"}

\* Everything but the page and the job store.
serverVars ==
    << redisUrl, importQueue, statusQueue, importWorker, worker, catalog,
       request, sync, response >>

\* setInterval(..., 2000); setPollInterval(interval)
startPolling(jobId, p) ==
    [p EXCEPT !.intervals = @ \cup {jobId}, !.pollInterval = jobId]

\* The Start Import button (enabled while isImporting is false) up to the
\* await of the POST; a background import is enqueued by the server.
handleStartImport(session, answer) ==
    /\ ~page.isImporting
    /\ page.started < MaxStarts
    /\ IF session = "none"
       THEN UNCHANGED << page, jobs >>
       ELSE /\ page' = [page EXCEPT
                          !.isImporting = TRUE,
                          !.started = @ + 1,
                          !.starting = << [kind |-> answer, id |-> Len(jobs) + 1] >>]
            /\ jobs' = IF answer = "job"
                       THEN Append(jobs, NewJob(MakeBatch(LARGE_IMPORT_THRESHOLD + 1,
                                                          "valid"),
                                                NameMapping))
                       ELSE jobs
    /\ UNCHANGED serverVars

\* The POST resolves or rejects: the rest of handleStartImport.
StartResolved ==
    /\ page.starting # << >>
    /\ LET answer == page.starting[1]
           settled == [page EXCEPT !.starting = << >>]
       IN  page' =
             CASE answer.kind = "job" ->
                    startPolling(answer.id,
                                 [settled EXCEPT !.importJob = << "pending" >>])
               [] answer.kind = "result" ->
                    [settled EXCEPT !.importJob = << "result" >>,
                                    !.isImporting = FALSE]
               [] OTHER ->
                    [settled EXCEPT !.isImporting = FALSE]
    /\ UNCHANGED jobs
    /\ UNCHANGED serverVars

\* A tick of a running timer: the callback sends the poll.
IntervalTick(interval, outcome) ==
    /\ interval \in page.intervals
    /\ Len(page.polls) < MaxInFlight
    /\ page' = [page EXCEPT !.polls =
                  Append(@, [interval |-> interval,
                             answer |-> IF outcome = "ok"
                                        THEN StatusOf(jobs[interval].state)
                                        ELSE "error"])]
    /\ UNCHANGED jobs
    /\ UNCHANGED serverVars

\* The answer to a poll reaches the page: the rest of the timer callback.
PollResolved(k) ==
    /\ k \in 1..Len(page.polls)
    /\ LET poll == page.polls[k]
           settled == [page EXCEPT !.polls = SubSeq(@, 1, k - 1)
                                              \o SubSeq(@, k + 1, Len(@))]
       IN  page' =
             IF poll.answer = "error"
             THEN [settled EXCEPT !.intervals = @ \ {poll.interval},
                                  !.pollInterval = 0,
                                  !.isImporting = FALSE]
             ELSE IF poll.answer \in {"completed", "failed"}
             THEN [settled EXCEPT !.importJob = << poll.answer >>,
                                  !.intervals = @ \ {poll.interval},
                                  !.pollInterval = 0,
                                  !.isImporting = FALSE,
                                  !.notified = @ + 1]
             ELSE [settled EXCEPT !.importJob = << poll.answer >>]
    /\ UNCHANGED jobs
    /\ UNCHANGED serverVars

\* The Cancel button (rendered while isImporting is true).
handleCancelImport ==
    /\ page.isImporting
    /\ page' = [page EXCEPT
                  !.intervals = IF page.pollInterval # 0
                                THEN @ \ {page.pollInterval}
                                ELSE @,
                  !.pollInterval = 0,
                  !.isImporting = FALSE,
                  !.importJob = << >>,
                  !.cancelled = TRUE]
    /\ UNCHANGED jobs
    /\ UNCHANGED serverVars

\* What the worker and the store make of a job next, a processor run taken
\* as one step: taken, returned, crashed in a progress update, backoff over.
JobSuccessors(job) ==
    CASE job.state = "waiting" -> {[job EXCEPT !.state = "active"]}
      [] job.state = "active" ->
           {[job EXCEPT
               !.state = "completed",
               !.progress = 100,
               !.returnvalue =
                   << ReturnValue(SyncLoop(StartLocals, job.data.csvData,
                                           job.data.fieldMappings, catalog),
                                  job.data.csvData) >>]}
             \cup {AttemptFailed(job, reason) : reason \in CrashReasons}
      [] job.state = "delayed" -> {[job EXCEPT !.state = "waiting"]}
      [] OTHER -> {}

\* The background job goes on, whatever the page does.
JobMoves(j) ==
    /\ j \in 1..Len(jobs)
    /\ \E next \in JobSuccessors(jobs[j]) : jobs' = [jobs EXCEPT ![j] = next]
    /\ UNCHANGED page
    /\ UNCHANGED serverVars

ClientInit == Init /\ redisUrl = "configured" /\ catalog = "created"

ClientNext ==
    \/ \E session \in StatusSessions, answer \in StartAnswers :
          handleStartImport(session, answer)
    \/ StartResolved
    \/ \E interval \in 1..MaxStarts, outcome \in PollOutcomes :
          IntervalTick(interval, outcome)
    \/ \E k \in 1..MaxInFlight : PollResolved(k)
    \/ handleCancelImport
    \/ \E j \in 1..MaxStarts : JobMoves(j)

ClientSpec == ClientInit /\ [][ClientNext]_vars

(***************************************************************************)
(* Properties.                                                             *)
(***************************************************************************)
Terminal == {"completed", "failed"}

\* An import request that passed the session and body checks is being answered.
ImportAnswered ==
    /\ request.route = "import"
    /\ request.session = "valid"
    /\ ~NoCsvData(request.body)
    /\ ~NoFieldMappings(request.body)

\* A status request with a session is being answered.
StatusAnswered ==
    /\ request.route = "status"
    /\ request.session = "valid"
    /\ response.route = "status"

\* The job handle of the claim, written out.
PendingHandle(id, n) ==
    [route |-> "import", code |-> 200, shape |-> "job", id |-> id,
     status |-> "pending", progress |-> 0, total |-> n, processed |-> 0,
     errors |-> << >>]

\* C1: with a reachable queue (the Queue object exists and add resolves), a
\* batch of 1..50 rows is processed inline and answered with the synchronous
\* result, and a batch of 51 or more rows enqueues exactly one job, processes
\* no row inside the request and is answered with the pending job handle.
C1_ModeByRowCount ==
    [][ (response = NoResponse /\ ImportAnswered' /\ importQueue
            /\ request'.add # "rejects")
        => LET n == Len(request'.body.csvData) IN
           IF n <= 50
           THEN /\ jobs' = jobs
                /\ sync'.i = n
                /\ response'.code = 200 /\ response'.shape = "result"
                /\ response'.total = n
           ELSE /\ Len(jobs') = Len(jobs) + 1
                /\ SubSeq(jobs', 1, Len(jobs)) = jobs
                /\ jobs'[Len(jobs')].data.csvData = request'.body.csvData
                /\ jobs'[Len(jobs')].state = "waiting"
                /\ sync' = StartLocals
                /\ response' = PendingHandle(Len(jobs'), n) ]_vars

\* C1 witness: 51 rows were answered with a job handle.
C1_Witness ==
    /\ ImportAnswered
    /\ Len(request.body.csvData) = 51
    /\ response.code = 200 /\ response.shape = "job"
    /\ Len(jobs) = 1

\* C2: when the job infrastructure is unreachable at import start (no Queue
\* object, or add rejects), the import fails over to the synchronous loop for
\* any row count and every row of the batch is attempted.
C2_FailoverToSynchronous ==
    (ImportAnswered /\ (~importQueue \/ request.add = "rejects"))
    => /\ response.code = 200 /\ response.shape = "result"
       /\ sync.i = Len(request.body.csvData)

\* The rows of a batch the single-record importer reports as accepted.
AcceptedRows(csvData, fieldMappings, condition) ==
    {k \in 1..Len(csvData) :
        processProductImport(csvData[k], fieldMappings, condition).success}

\* The rows named by a list of error entries.
RowsOf(errors) == {errors[k].row : k \in 1..Len(errors)}

\* A finished tally: processed counts the accepted rows, errors holds one
\* entry per failed row, and together they make the total.
TallyComplete(processed, errors, total, csvData, fieldMappings) ==
    LET ok == AcceptedRows(csvData, fieldMappings, catalog) IN
    /\ total = Len(csvData)
    /\ processed + Len(errors) = total
    /\ processed = Cardinality(ok)
    /\ RowsOf(errors) = (1..Len(csvData)) \ ok
    /\ Cardinality(RowsOf(errors)) = Len(errors)

\* C3: no row failure aborts a batch: whatever the per-row outcomes, the
\* runner attempts every row once and ends with processed + errors.length =
\* total, processed counting the accepted rows and errors holding one entry
\* per failed row, in the synchronous loop and in the background worker.
C3_NoRowFailureAborts ==
    /\ (ImportAnswered /\ response.code = 200 /\ response.shape = "result")
       => /\ sync.i = Len(request.body.csvData)
          /\ TallyComplete(response.processed, response.errors, response.total,
                           request.body.csvData, request.body.fieldMappings)
    /\ \A j \in 1..Len(jobs) :
          jobs[j].state = "completed"
          => TallyComplete(jobs[j].returnvalue[1].processed,
                           jobs[j].returnvalue[1].errors,
                           jobs[j].returnvalue[1].total,
                           jobs[j].data.csvData, jobs[j].data.fieldMappings)
    /\ worker.pc # "idle"
       => worker.loc.processed + Len(worker.loc.errors)
            = worker.loc.i + (IF worker.pc = "progress" THEN 1 ELSE 0)

\* C3 witness: a background batch with accepted, invalid and rejected rows has
\* been run to the end.
C3_Witness ==
    /\ Len(jobs) = 1
    /\ jobs[1].state = "completed"
    /\ jobs[1].returnvalue[1].processed > 0
    /\ \E k \in 1..Len(jobs[1].returnvalue[1].errors) :
          jobs[1].returnvalue[1].errors[k].reason = "Name is required"
    /\ \E k \in 1..Len(jobs[1].returnvalue[1].errors) :
          jobs[1].returnvalue[1].errors[k].reason = "This attribute must be unique"

\* C4: per-row failures never make a job failed: a run that attempted all
\* rows ends completed however many rows failed, and a job becomes failed
\* only when the runner crashes outside the per-row handling (here: in the
\* progress update).
C4_FailedOnlyByCrash ==
    [][ \A j \in 1..Len(jobs) :
          /\ (jobs[j].state # "failed" /\ jobs'[j].state = "failed")
             => (worker.job = j /\ worker.pc = "progress")
          /\ (worker.job = j /\ worker.pc = "loop" /\ worker'.job # j)
             => LET answer == StatusAnswer(j, jobs'[j]) IN
                /\ answer.status = "completed"
                /\ answer.processed = worker.loc.processed
                /\ answer.errors = worker.loc.errors
                /\ answer.processed + Len(answer.errors) = answer.total ]_vars

\* C4 witness: a poll reports a job all of whose rows failed as completed,
\* with processed 0 and one error per row.
C4_Witness ==
    /\ StatusAnswered
    /\ response.code = 200
    /\ response.status = "completed"
    /\ response.processed = 0
    /\ Len(response.errors) = response.total
    /\ response.total > 50

\* C5: the progress a status poll reports for a job never decreases from one
\* poll to a later one, automatic retries included, and a poll reports
\* progress 100 only together with a terminal status.  (A poll reads the job
\* and can come at any moment, so "from one poll to a later one" is "from one
\* state to the next".)
C5_ProgressMonotone ==
    [][ \A j \in 1..Len(jobs) :
          LET before == StatusAnswer(j, jobs[j])
              after == StatusAnswer(j, jobs'[j])
          IN  /\ after.progress >= before.progress
              /\ after.progress = 100 => after.status \in Terminal ]_vars

\* C6: every enqueued background job is eventually run by the worker and
\* reaches a terminal status.
C6_EveryJobTerminates ==
    \A j \in 1..MaxJobs :
        (j <= Len(jobs)) ~> (j <= Len(jobs) /\ jobs[j].state \in Terminal)

\* The record's name is empty after mapping: no column mapped to name holds a
\* cell that is non-empty after trimming.
NameIsEmpty(row, fieldMappings) ==
    \A column \in DOMAIN fieldMappings :
        \/ fieldMappings[column] # "name"
        \/ column \notin DOMAIN row
        \/ trim(row[column]) = << >>

\* What a run has recorded for the rows up to `done` that fail validation: no
\* create call, and exactly one entry 'Row i: Name is required'.
InvalidRowsRecorded(loc, done, csvData, fieldMappings) ==
    \A i \in 1..done :
        NameIsEmpty(csvData[i], fieldMappings)
        => /\ \A k \in 1..Len(loc.posts) : loc.posts[k] # i
           /\ Cardinality({k \in 1..Len(loc.errors) : loc.errors[k].row = i}) = 1
           /\ \A k \in 1..Len(loc.errors) :
                 loc.errors[k].row = i => loc.errors[k].reason = "Name is required"

\* C7: a row whose mapping fails validation causes no catalog create call and
\* does not stop the batch; it adds exactly one entry 'Row i: Name is
\* required' with i its 1-based position.
C7_InvalidRowNotSubmitted ==
    /\ (ImportAnswered /\ response.code = 200 /\ response.shape = "result")
       => /\ sync.i = Len(request.body.csvData)
          /\ response.errors = sync.errors
          /\ InvalidRowsRecorded(sync, sync.i, request.body.csvData,
                                 request.body.fieldMappings)
    /\ worker.pc # "idle"
       => InvalidRowsRecorded(worker.loc,
                              worker.loc.i + (IF worker.pc = "progress" THEN 1 ELSE 0),
                              jobs[worker.job].data.csvData,
                              jobs[worker.job].data.fieldMappings)

\* C7 witness: rows [{Name 'A'}, {Name ''}] with Name mapped to name give
\* processed 1, total 2, errors ['Row 2: Name is required'].
C7_Witness ==
    /\ ImportAnswered
    /\ request.body.csvData = << RowOf(ChairCell), RowOf(EmptyCell) >>
    /\ request.body.fieldMappings = NameMapping
    /\ response.code = 200 /\ response.shape = "result"
    /\ response.processed = 1
    /\ response.total = 2
    /\ response.errors = << [row |-> 2, reason |-> "Name is required"] >>
    /\ sync.posts = << 1 >>

\* The job infrastructure is unreachable for the poll being answered: there is
\* no Queue object, or a lookup the handler makes fails.
StoreUnreachable ==
    \/ ~statusQueue
    \/ request.lookup = "getJobFails"
    \/ request.lookup = "getStateFails" /\ request.id \in 1..Len(jobs)

\* C8: an id unknown to the store gives 404, and whenever the job
\* infrastructure is unreachable the poll gives 503 and never 404.
C8_UnavailableIs503 ==
    StatusAnswered
    => /\ StoreUnreachable => response.code = 503
       /\ (~StoreUnreachable /\ request.id \notin 1..Len(jobs)) => response.code = 404

\* The native job states of the store.
NativeStates ==
    {"completed", "failed", "active", "delayed", "waiting", "waiting-children",
     "prioritized", "paused", "unknown"}

\* The four-state lifecycle as the claim tabulates it.
LifecycleOf(state) ==
    CASE state = "active"    -> "processing"
      [] state = "completed" -> "completed"
      [] state = "failed"    -> "failed"
      [] OTHER               -> "pending"

\* C9: the poll maps active to processing, completed to completed, failed to
\* failed and every other native state to pending.
C9_StatusMapping ==
    /\ \A state \in NativeStates : StatusOf(state) = LifecycleOf(state)
    /\ (StatusAnswered /\ response.code = 200)
       => response.status = LifecycleOf(jobs[request.id].state)

\* C9 witness: a job waiting in backoff is reported as pending.
C9_Witness ==
    /\ StatusAnswered
    /\ response.code = 200
    /\ jobs[request.id].state = "delayed"
    /\ response.status = "pending"

ImporterReturned == response.route = "importer"

\* The reply the catalog gave to the create call of the call being answered.
ReplyGiven == CatalogReply(request.condition, response.posted[1])

\* The reason the claim gives for each failed create call.
ReasonFor(reply) ==
    CASE reply = "rejectedMsg"   -> "This attribute must be unique"
      [] reply = "rejectedNoMsg" -> "Request failed with status code 500"
      [] reply = "transport"     -> "Network Error"
      [] reply = "malformed"     -> "Cannot read properties of undefined (reading 'id')"
      [] reply = "thrownEmpty"   -> "Unknown error"

\* C11: the single-record importer always returns a row outcome, in both of
\* its copies: success exactly when the create call was answered with a
\* well-formed success, and otherwise a failure whose reason is the catalog's
\* message if there is one, else the message of the error that was thrown,
\* else 'Unknown error'.
C11_ImporterNeverRaises ==
    ImporterReturned
    => /\ response.result \in [success : BOOLEAN,
                               error : {"", "Name is required"}
                                         \cup {ReasonFor(r) : r \in CatalogReplies \ {"created"}}]
       /\ response.worker = response.result
       /\ response.posted = << >>
          => response.result = [success |-> FALSE, error |-> "Name is required"]
       /\ response.posted # << >>
          => IF ReplyGiven = "created"
             THEN response.result = [success |-> TRUE, error |-> ""]
             ELSE response.result = [success |-> FALSE, error |-> ReasonFor(ReplyGiven)]

\* C11 witness: an error without a message was thrown and the row was
\* returned as failed with 'Unknown error'.
C11_Witness ==
    /\ ImporterReturned
    /\ request.condition = "thrownEmpty"
    /\ response.posted # << >>
    /\ response.result = [success |-> FALSE, error |-> "Unknown error"]

\* C12: an authenticated import request whose rows are missing or empty, or
\* whose field mapping is missing or empty, is answered 400 as a whole: no
\* row is mapped, no create call is issued, no job is enqueued and the worker
\* is not touched.
C12_BadBodyRejected ==
    [][ (/\ response = NoResponse
         /\ request'.route = "import"
         /\ request'.session = "valid"
         /\ NoCsvData(request'.body) \/ NoFieldMappings(request'.body))
        => /\ response'.code = 400
           /\ response'.error \in {"CSV data is required",
                                   "Field mappings are required"}
           /\ sync' = StartLocals
           /\ jobs' = jobs
           /\ worker' = worker ]_vars

\* C12 witness: a request with one row and an empty mapping was answered 400.
C12_Witness ==
    /\ request.route = "import"
    /\ request.session = "valid"
    /\ ~NoCsvData(request.body)
    /\ "fieldMappings" \in DOMAIN request.body
    /\ NoFieldMappings(request.body)
    /\ response.code = 400
    /\ response.error = "Field mappings are required"
    /\ sync = StartLocals

\* C13: an import request without a session, or with a session that carries
\* no JWT, is answered 401 before the body is read: no row is mapped, no
\* create call is issued and no job is enqueued.
C13_UnauthorizedRejected ==
    [][ (/\ response = NoResponse
         /\ request'.route = "import"
         /\ request'.session # "valid")
        => /\ response'.code = 401
           /\ "body" \notin DOMAIN request'
           /\ sync' = StartLocals
           /\ jobs' = jobs
           /\ worker' = worker ]_vars

\* C13 witness: a session without a JWT was answered 401 'No JWT token'.
C13_Witness ==
    /\ request.route = "import"
    /\ request.session = "noJwt"
    /\ response.code = 401
    /\ response.error = "No JWT token"
    /\ sync = StartLocals

\* C14: while a job is being processed, a poll that comes after k of its rows
\* have been attempted (and that no step of the worker overtakes) reports
\* progress round(100 * k / total), processed = the rows among those k that
\* succeeded, and errors = the failure entries of those k rows.
C14_CountsDuringRun ==
    (/\ StatusAnswered
     /\ response.code = 200
     /\ response.status = "processing"
     /\ request.raced = 0
     /\ worker.job = request.id
     /\ worker.pc = "loop"
     /\ worker.loc.i > 0)
    => /\ response.progress = ProgressOf(worker.loc.i, response.total)
       /\ response.processed = worker.loc.processed
       /\ response.errors = worker.loc.errors

\* C15: a poll that reports a job as completed or failed reports what every
\* later poll reports: the status, progress, processed count and error list
\* of the job as it is stored, which does not change any more.
C15_TerminalAnswerFinal ==
    (/\ StatusAnswered
     /\ response.code = 200
     /\ response.status \in Terminal)
    => LET later == StatusAnswer(request.id, jobs[request.id]) IN
       /\ response.status = later.status
       /\ response.progress = later.progress
       /\ response.processed = later.processed
       /\ response.errors = later.errors

\* C16: a status poll is read-only: neither of its steps changes a job or
\* the worker.  The state, progress and return value of a job change only in
\* steps of the one processor run that is executing that job, and the stored
\* data of a job never changes.
C16_PollReadOnly ==
    [][ /\ (/\ request'.route = "status"
            /\ request.route # "status" \/ response' # response)
           => (jobs' = jobs /\ worker' = worker)
        /\ \A j \in 1..Len(jobs) :
              /\ jobs'[j].data = jobs[j].data
              /\ (\/ jobs'[j].progress # jobs[j].progress
                  \/ jobs'[j].returnvalue # jobs[j].returnvalue
                  \/ jobs'[j].failedReason # jobs[j].failedReason
                  \/ jobs'[j].state # jobs[j].state /\ jobs'[j].state \in Terminal)
                 => (worker.job = j /\ worker.pc # "idle" /\ jobs[j].state = "active")
      ]_vars

\* C16 witness: a poll of the job the worker is running was answered between
\* two of its rows, after a step of the worker had overtaken it.
C16_Witness ==
    /\ StatusAnswered
    /\ response.code = 200
    /\ response.status = "processing"
    /\ request.raced = 1
    /\ worker.job = request.id
    /\ worker.loc.i > 0

\* A cell that is empty after trimming: it holds nothing but spaces.
Blank(cell) == \A k \in 1..Len(cell) : cell[k] = " "

\* The columns whose cell the mapper writes to a field: mapped to it, present
\* in the row and not the empty string.
ColumnsWritten(row, fieldMappings, field) ==
    {k \in 1..Len(ColumnOrder) :
        /\ ColumnOrder[k] \in DOMAIN fieldMappings
        /\ fieldMappings[ColumnOrder[k]] = field
        /\ ColumnOrder[k] \in DOMAIN row
        /\ row[ColumnOrder[k]] # << >>}

\* The record's name is non-empty after mapping: the last column written to
\* name holds more than spaces.
Named(row, fieldMappings) ==
    LET written == ColumnsWritten(row, fieldMappings, "name") IN
    /\ written # {}
    /\ ~Blank(row[ColumnOrder[CHOOSE k \in written : \A h \in written : h <= k]])

\* C17: the importer fails a row with 'Name is required' exactly when the
\* record's name is empty after mapping (no column mapped to name, the cell
\* absent, or empty after trimming); nothing else is validated, so every row
\* with a non-empty mapped name is submitted to the catalog, with that name.
C17_NameRequiredIffEmpty ==
    ImporterReturned
    => LET named == Named(request.row, request.fieldMappings) IN
       /\ (response.result = [success |-> FALSE, error |-> "Name is required"])
            <=> ~named
       /\ (response.posted # << >>) <=> named
       /\ named => ~Blank(response.posted[1].name)

\* C17 witness: a row whose name cell holds only a space was failed with
\* 'Name is required' and not submitted.
C17_Witness ==
    /\ ImporterReturned
    /\ request.row = [Name |-> BlankCell]
    /\ request.fieldMappings = NameMapping
    /\ response.result = [success |-> FALSE, error |-> "Name is required"]
    /\ response.posted = << >>

\* The row supplies a slug of its own.
SlugSupplied(row, fieldMappings) ==
    \E k \in ColumnsWritten(row, fieldMappings, "slug") : ~Blank(row[ColumnOrder[k]])

\* ^[a-z0-9-]+$ with no leading and no trailing hyphen.
WellFormedSlug(slug) ==
    /\ slug # << >>
    /\ \A k \in 1..Len(slug) :
          slug[k] \in {"a", "b", "c", "d", "e", "f", "g", "h", "i", "j", "k", "l",
                       "m", "n", "o", "p", "q", "r", "s", "t", "u", "v", "w", "x",
                       "y", "z", "0", "1", "2", "3", "4", "5", "6", "7", "8", "9",
                       "-"}
    /\ slug[1] # "-"
    /\ slug[Len(slug)] # "-"

\* C18: for every row with a non-empty mapped name and no slug supplied, the
\* record is submitted with a derived slug that is non-empty, lowercase, made
\* of a-z, 0-9 and hyphen only, without a leading or trailing hyphen,
\* whatever characters the name is made of.
C18_DerivedSlugWellFormed ==
    (/\ ImporterReturned
     /\ Named(request.row, request.fieldMappings)
     /\ ~SlugSupplied(request.row, request.fieldMappings))
    => /\ response.posted # << >>
       /\ WellFormedSlug(response.posted[1].slug)

\* The value of the field a mapping entry can name.
FieldOf(productData, field) ==
    CASE field = "width"  -> productData.dimensions.width
      [] field = "depth"  -> productData.dimensions.depth
      [] field = "height" -> productData.dimensions.height
      [] field = "unit"   -> productData.dimensions.unit
      [] OTHER            -> productData[field]

\* C19: a mapping entry whose column is absent from the row, or whose cell is
\* empty after trimming (a cell of spaces included), leaves its target field
\* at the default, and the row is not failed for it.  (Stated for rows whose
\* name is there, and for the fields other than name and slug: an empty slug
\* is derived from the name afterwards.)
C19_BlankCellKeepsDefault ==
    (/\ ImporterReturned
     /\ Named(request.row, request.fieldMappings))
    => /\ response.posted # << >>
       /\ \A column \in DOMAIN request.fieldMappings :
             (/\ request.fieldMappings[column] \in ProductFields \ {"name", "slug"}
              /\ IF column \in DOMAIN request.row
                 THEN Blank(request.row[column])
                 ELSE TRUE)
             => FieldOf(response.posted[1], request.fieldMappings[column])
                  = FieldOf(DefaultProductData, request.fieldMappings[column])

\* C20: the presign endpoint calls the CMS only for an authenticated and
\* complete request: without a session or without a JWT it answers 401,
\* whatever the body; with a JWT and filename or contentType missing it
\* answers 400 'filename and contentType are required'; in each of these
\* cases no call is made to the CMS presign endpoint.
C20_PresignGuards ==
    request.route = "presign"
    => /\ request.session # "valid"
          => (response.code = 401 /\ request.calls = << >>)
       /\ (/\ request.session = "valid"
           /\ request.body # UnparsableBody
           /\ request.body.filename = "" \/ request.body.contentType = "")
          => /\ response = [route |-> "presign", code |-> 400,
                            error |-> "filename and contentType are required"]
             /\ request.calls = << >>
       /\ request.calls # << >>
          => /\ Len(request.calls) = 1
             /\ request.session = "valid"
             /\ request.calls[1].filename = request.body.filename
             /\ request.calls[1].filename # ""
             /\ request.calls[1].contentType = request.body.contentType
             /\ request.calls[1].contentType # ""

\* C20 witness: a session without a JWT and a body without a filename were
\* answered 401 by the second version, and the CMS was not called.
C20_Witness ==
    /\ request.route = "presign"
    /\ request.version = "second"
    /\ request.session = "noJwt"
    /\ request.body.filename = ""
    /\ response.code = 401
    /\ request.calls = << >>

Increasing(rows) == \A h, k \in 1..Len(rows) : h < k => rows[h] < rows[k]

\* The row numbers of a list of error entries, in the order of the list.
ErrorRows(errors) == [k \in 1..Len(errors) |-> errors[k].row]

\* The locals of a run after `done` rows: the create calls and the error
\* entries are those of rows 1..done, each list in input order, and every
\* one of these rows has its outcome recorded.
InInputOrder(loc, done) ==
    /\ Increasing(loc.posts)
    /\ Increasing(ErrorRows(loc.errors))
    /\ \A k \in 1..Len(loc.posts) : loc.posts[k] \in 1..done
    /\ \A k \in 1..Len(loc.errors) : loc.errors[k].row \in 1..done
    /\ loc.processed + Len(loc.errors) = done

\* The rows a worker run has dealt with: row i + 1 too once its call is over.
WorkerDone == worker.loc.i + (IF worker.pc = "progress" THEN 1 ELSE 0)

\* C22: rows are processed in input order, one at a time: when the create
\* call of a row is issued the outcomes of all rows before it are recorded,
\* and the error list is in increasing row order, in the synchronous loop
\* and in the background worker.
C22_RowsInInputOrder ==
    /\ (ImportAnswered /\ response.code = 200 /\ response.shape = "result")
       => /\ InInputOrder(sync, Len(request.body.csvData))
          /\ Increasing(ErrorRows(response.errors))
    /\ worker.pc # "idle" => InInputOrder(worker.loc, WorkerDone)
    /\ \A j \in 1..Len(jobs) :
          jobs[j].state = "completed"
          => Increasing(ErrorRows(jobs[j].returnvalue[1].errors))

\* C22 witness: the synchronous loop answered a batch in which the catalog
\* turned down the first row and the second row failed validation: both
\* rows are in the error list in that order, and later rows were posted.
C22_Witness ==
    /\ ImportAnswered
    /\ response.code = 200 /\ response.shape = "result"
    /\ Len(response.errors) > 2
    /\ response.errors[1].row = 1 /\ response.errors[2].row = 2
    /\ response.errors[1].reason # response.errors[2].reason
    /\ Len(sync.posts) > 1 /\ sync.posts[1] = 1

\* How often a row number occurs in a list.
Occurrences(rows, i) == Cardinality({k \in 1..Len(rows) : rows[k] = i})

\* C23: within one run of the batch runner every row leads to at most one
\* create call, whether it succeeds or fails, and a failed row has one error
\* entry and no second attempt; a retry is a new run that starts from the
\* first row.
C23_NoRowRetry ==
    /\ worker.pc # "idle"
       => \A i \in 1..Len(jobs[worker.job].data.csvData) :
             /\ Occurrences(worker.loc.posts, i) <= 1
             /\ Occurrences(ErrorRows(worker.loc.errors), i) <= 1
    /\ (ImportAnswered /\ response.code = 200 /\ response.shape = "result")
       => \A i \in 1..Len(request.body.csvData) :
             /\ Occurrences(sync.posts, i) <= 1
             /\ Occurrences(ErrorRows(sync.errors), i) <= 1
    /\ (worker.pc = "loop" /\ worker.loc.i = 0) => worker.loc = StartLocals

\* C23 witness: in a retried run a row the catalog turned down has one create
\* call and one error entry.
C23_Witness ==
    /\ worker.pc # "idle"
    /\ jobs[worker.job].attemptsMade > 0
    /\ \E k \in 1..Len(worker.loc.errors) :
          /\ worker.loc.errors[k].reason # "Name is required"
          /\ Occurrences(worker.loc.posts, worker.loc.errors[k].row) = 1

\* The jobs the store holds as active.
ActiveJobs == {j \in 1..Len(jobs) : jobs[j].state = "active"}

\* C24: the worker drains the background jobs one at a time: never two jobs
\* are active, and the processor run that issues the create calls is that of
\* the one active job, so no two background create calls are in flight.
C24_OneJobAtATime ==
    /\ Cardinality(ActiveJobs) <= 1
    /\ IF worker.pc = "idle" THEN ActiveJobs = {} ELSE ActiveJobs = {worker.job}

\* C24 witness: the second job is being processed, its first rows posted,
\* while the first job waits in backoff for its retry.
C24_Witness ==
    /\ Len(jobs) = 2
    /\ jobs[1].state = "delayed"
    /\ jobs[2].state = "active"
    /\ worker.job = 2
    /\ Len(worker.loc.posts) > 1

NumericFields == {"price", "width", "depth", "height"}

FlagFields == {"hotel_grade", "availability"}

\* The call being answered wrote the cell of column Other to `field` and
\* posted the record.
CellWritten(field) ==
    /\ ImporterReturned
    /\ response.posted # << >>
    /\ "Other" \in DOMAIN request.fieldMappings
    /\ request.fieldMappings["Other"] = field
    /\ "Other" \in DOMAIN request.row
    /\ request.row["Other"] # << >>

\* The cell reads 'true' or 'yes', whatever the case.
Truthy(cell) ==
    toLowerCase(trim(cell)) \in { << "t", "r", "u", "e" >>, << "y", "e", "s" >> }

\* What the record of the call being answered would hold in `field` had the
\* cell of column Other been `cell`.
WithCell(cell, field) ==
    FieldOf(MapRow([request.row EXCEPT !["Other"] = cell], request.fieldMappings),
            field)

\* A numeric cell without a number in it gives null and does not fail the row.
C25_Numbers ==
    \A field \in NumericFields :
        (CellWritten(field) /\ parseFloat(trim(request.row["Other"])).nan)
        => /\ FieldOf(response.posted[1], field) = << >>
           /\ ReplyGiven = "created" => response.result.success

\* A flag cell gives one of two values: that of 'true' when it reads 'true'
\* or 'yes' in any case, that of 'no' otherwise, and the two differ.
C25_Flags ==
    \A field \in FlagFields :
        CellWritten(field)
        => /\ WithCell(<< "t", "r", "u", "e" >>, field) # WithCell(<< "n", "o" >>, field)
           /\ FieldOf(response.posted[1], field) =
                 IF Truthy(request.row["Other"])
                 THEN WithCell(<< "t", "r", "u", "e" >>, field)
                 ELSE WithCell(<< "n", "o" >>, field)
           /\ ReplyGiven = "created" => response.result.success

\* C25: malformed numeric or boolean cells never fail a row: a price, width,
\* depth or height cell that does not parse as a number gives null, and a
\* hotel_grade or availability cell gives true exactly when it reads 'true'
\* or 'yes' ignoring case and false otherwise, with no third value.
C25_LenientCoercion == C25_Numbers /\ C25_Flags

\* The hotel_grade half of the flags, which the mapper does keep.
C25_HotelGradeOnly ==
    CellWritten("hotel_grade")
    => response.posted[1].hotel_grade = Truthy(request.row["Other"])

\* The rows the catalog has accepted in the run the worker is in.
AcceptedInRun ==
    {i \in 1..WorkerDone :
        /\ Occurrences(worker.loc.posts, i) > 0
        /\ Occurrences(ErrorRows(worker.loc.errors), i) = 0}

\* The rows of job j that an earlier attempt is known to have got accepted.
\* An attempt ends without a return only in a progress update, the earliest
\* after the call of row 1, so every attempt counted in attemptsMade has been
\* through row 1, and the catalog answers a record the same way each time.
AcceptedBefore(j) ==
    IF jobs[j].attemptsMade = 0 THEN {}
    ELSE {1} \cap AcceptedRows(jobs[j].data.csvData, jobs[j].data.fieldMappings,
                               catalog)

\* C26: over the life of a background job, retries included, each row is
\* accepted by the catalog at most once: a retried run does not create again
\* what an earlier attempt created.
C26_CreatedAtMostOnce ==
    worker.pc # "idle" => AcceptedInRun \cap AcceptedBefore(worker.job) = {}

\* The place of a status in the order pending, processing, terminal.
StatusRank(status) ==
    CASE status = "pending"    -> 0
      [] status = "processing" -> 1
      [] OTHER                 -> 2

\* C27: the status successive polls report for a job only moves forward in
\* the order pending, processing, then completed or failed, also while the
\* batch waits in backoff for a retry, and a poll that reports pending
\* reports progress 0.  (A poll reads the job and can come at any moment, so
\* "a later poll" is a poll in a later state.)
C27_StatusMovesForward ==
    [][ \A j \in 1..Len(jobs) :
          LET before == StatusAnswer(j, jobs[j])
              after == StatusAnswer(j, jobs'[j])
          IN  /\ StatusRank(after.status) >= StatusRank(before.status)
              /\ after.status = "pending" => after.progress = 0 ]_vars

\* The first half of C27 alone.
C27_NeverBackToPending ==
    [][ \A j \in 1..Len(jobs) :
          StatusRank(StatusOf(jobs'[j].state)) >= StatusRank(StatusOf(jobs[j].state))
      ]_vars

\* The second half of C27 alone.
C27_PendingAtZero ==
    \A j \in 1..Len(jobs) :
        StatusOf(jobs[j].state) = "pending" => jobs[j].progress = 0

\* What the synchronous loop makes of the first `done` rows of a batch.
SyncAfter(done, csvData, fieldMappings) ==
    SyncLoop(StartLocals, SubSeq(csvData, 1, done), fieldMappings, catalog)

\* C28: the synchronous loop and the background worker are equivalent: for
\* the same rows, the same mapping and the same catalog answers both issue
\* the same create calls in the same order and have the same processed count
\* and the same error list, after every row and at the end.
C28_RunnersEquivalent ==
    /\ worker.pc = "loop"
       => worker.loc = SyncAfter(worker.loc.i,
                                 jobs[worker.job].data.csvData,
                                 jobs[worker.job].data.fieldMappings)
    /\ \A j \in 1..Len(jobs) :
          jobs[j].state = "completed"
          => LET csvData == jobs[j].data.csvData
                 loc == SyncAfter(Len(csvData), csvData, jobs[j].data.fieldMappings)
                 result == SyncResult(loc, Len(csvData))
             IN  /\ jobs[j].returnvalue[1].processed = result.processed
                 /\ jobs[j].returnvalue[1].total = result.total
                 /\ jobs[j].returnvalue[1].errors = result.errors

\* C28 witness: a completed job in which rows were accepted, rows failed
\* validation and rows were turned down by the catalog.
C28_Witness ==
    /\ Len(jobs) > 0
    /\ jobs[1].state = "completed"
    /\ jobs[1].returnvalue[1].processed > 1
    /\ \E h, k \in 1..Len(jobs[1].returnvalue[1].errors) :
          /\ jobs[1].returnvalue[1].errors[h].reason = "Name is required"
          /\ jobs[1].returnvalue[1].errors[k].reason = "This attribute must be unique"

\* C29: after the operator presses Cancel the page starts no poll timer
\* and sends no further poll for that import, and the displayed job stays
\* cleared with isImporting false, also when the start request or a poll was
\* in flight at the moment of the cancel; the cancel leaves the background
\* job as it is.
C29_CancelIsFinal ==
    [][ /\ page'.cancelled
           => /\ page'.intervals = {}
              /\ Len(page'.polls) <= Len(page.polls)
              /\ page'.importJob = << >>
              /\ ~page'.isImporting
        /\ (~page.cancelled /\ page'.cancelled) => jobs' = jobs ]_vars

\* The part of C29 that the page keeps: pressing Cancel changes no job, and
\* isImporting stays false after it.
C29_CancelLeavesJob ==
    [][ /\ (~page.cancelled /\ page'.cancelled) => jobs' = jobs
        /\ page'.cancelled => ~page'.isImporting ]_vars

\* C30: for one background import the page raises at most one completed or
\* failed notification, and after it the displayed job keeps the terminal
\* status, also when polls overlap or their answers arrive out of order.
C30_TerminalHandledOnce ==
    /\ page.notified <= 1
    /\ page.notified > 0
       => /\ page.importJob # << >>
          /\ page.importJob[1] \in Terminal

\* The first half of C30 alone.
C30_OneNotification == page.notified <= 1

\* The second half of C30 alone, for a page on which Cancel was not pressed.
C30_TerminalStays ==
    (page.notified > 0 /\ ~page.cancelled)
    => (page.importJob # << >> /\ page.importJob[1] \in Terminal)

====
